---- MODULE Spec2Model ----
(***************************************************************************)
(* Reputation Monitor: the per-source rate limiter (APIRateLimiter) and    *)
(* the coordinated multi-source fetch (fetch_all and its three fetchers).  *)
(*                                                                         *)
(* Time is counted in half-second ticks, the granularity of the jitter     *)
(* bounds 0.5 and 1.5 of wait_if_needed.                                   *)
(***************************************************************************)
EXTENDS Integers, Sequences, FiniteSets, TLC

VARIABLES
    clock,        \* time.time(), in ticks
    locks,        \* APIRateLimiter.locks: api_name -> holder (NoThread when free)
    last_calls,   \* APIRateLimiter.last_calls: api_name -> timestamp (0 = never)
    call_counts,  \* APIRateLimiter.call_counts: api_name -> list of timestamps
    limits,       \* the static (calls_per_minute, calls_per_hour) of each api_name
    pc,           \* position of each caller inside wait_if_needed
    api_name,     \* the api_name argument of each caller's current call
    now,          \* the local `now` of each caller
    wake,         \* end of the caller's pending time.sleep (0 = none)
    due,          \* now + remainder of the minute window found full (0 = none)
    ncalls,       \* number of wait_if_needed calls started so far
    env,          \* the credential environment variables that are set
    mode,         \* who called the fetcher: "fetch_all" or a "direct" caller
    stage,        \* position of the search handler / fetch_all / fetcher
    limit,        \* fetch_all's limit (a direct caller's limit)
    src_limit,    \* the limit argument of the running fetcher
    since,        \* the since argument of the running fetcher
    max_retries,  \* fetch_twitter_safe's max_retries
    attempt,      \* fetch_twitter_safe's loop variable
    items,        \* the running fetcher's items list
    sub,          \* fetch_reddit_safe's position in ["all", "news"]
    tw,           \* fetch_twitter_safe's return value
    rd,           \* fetch_reddit_safe's return value
    wb,           \* fetch_web_safe's return value
    df,           \* fetch_all's return value (rows of the DataFrame)
    requests,     \* transport requests issued, per source
    recorded,     \* wait_if_needed calls made by the fetchers, per source
    failed,       \* sources whose fetcher caught a failure
    only429,      \* every twitter attempt so far was answered rate-limited
    backoff,      \* seconds of the last retry sleep of fetch_twitter_safe
    start_time,   \* start_time of the last search_recent_tweets request
    cancelled,    \* the caller asked to cancel the running fetch_twitter_safe
    tw_resp,      \* what the last search_recent_tweets request answered
    web_resp,     \* what the last custom search request answered
    prev,         \* response and return value of the preceding fetch_web_safe
    sink_ok,      \* the progress widgets of streamlit work (they raise if not)
    progress,     \* the values passed to st.progress / progress_bar.progress
    rd_full,      \* every reddit search so far returned as many posts as asked
    page_stage,   \* GoogleSearchMonitor.search: "idle", "loop" or "returned"
    num_results,  \* its num_results after the clamp to 1..100
    results,      \* the length of its results list
    start,        \* its start index
    page_attempt, \* its loop variable attempt
    page_requests, \* the requests.get calls it has made
    wait_time,    \* milliseconds of its last sleep
    page_raised,  \* it has raised into its outer except branch
    returned,     \* the length of the list it has returned
    days_arg,     \* the days argument of the running or last fetch_all
    analysed,     \* what _analyze_result has stored in its result
    text,         \* the text argument of analyze_sentiment
    scored        \* analyze_sentiment's return value (NotScored before)

rlVars == <<clock, locks, last_calls, call_counts, limits, pc, api_name, now,
            wake, due, ncalls>>

fetchVars == <<env, mode, stage, limit, src_limit, since, max_retries, attempt,
               items, sub, tw, rd, wb, df, requests, recorded, failed, only429,
               backoff>>

runVars == <<start_time, cancelled, tw_resp, web_resp, prev, sink_ok, progress,
             rd_full>>

pageVars == <<page_stage, num_results, results, start, page_attempt,
              page_requests, wait_time, page_raised, returned>>

nlpVars == <<text, scored>>

calcVars == <<days_arg, analysed>>

vars == <<rlVars, fetchVars, runVars, nlpVars, pageVars, calcVars>>

----------------------------------------------------------------------------
(* Bounds of the model *)

MaxCalls == 2          \* wait_if_needed calls started, all callers together

Threads == {"t1", "t2"}
Sources == {"twitter", "reddit"}
\* the api_name of the three fetchers
FetchSources == {"twitter", "reddit", "google"}
NoThread == "none"
NoApi == "none"
\* no transport response yet, no text given, nothing scored yet
NoResponse == [kind |-> "none", n |-> 0]
NoTweets == [kind |-> "none", n |-> 0, bad |-> 0, unscorable |-> 0, early |-> 0]
NoText == [kind |-> "unset", compound |-> 0, polarity |-> 0, raises |-> FALSE]
NotScored == [sentiment |-> "none", confidence |-> 0]
\* _analyze_result has not run
NotAnalysed == [compound |-> 0, pii_detected |-> FALSE, risk_score |-> -1]

Ticks(seconds) == 2 * seconds
Minute == Ticks(60)
Hour == Ticks(3600)

\* (calls_per_minute, calls_per_hour) a source is called with: one call per
\* minute for twitter and two for reddit as in fetch_twitter_safe and
\* fetch_reddit_safe, with hourly ceilings small enough to be reached
LimitSet(api) == IF api = "twitter" THEN {<<1, 1>>, <<1, 2>>} ELSE {<<2, 2>>}
\* idle time a caller lets pass before its next call
GapSet == {0, Ticks(31), Ticks(3570)}
\* idle time before a call of a burst
BurstGapSet == {0}
\* random.uniform(1, 3): its two ends
MinuteJitter == {Ticks(1), Ticks(3)}
\* random.uniform(0.5, 1.5): its two ends
IntervalJitter == {1, 3}
\* ticks that pass between the two time.time() reads of the record step
StampGapSet == {0, 1}

----------------------------------------------------------------------------
(* wait_if_needed: the computations *)

Range(s) == {s[i] : i \in 1 .. Len(s)}

SeqMin(s) == CHOOSE x \in Range(s) : \A y \in Range(s) : x <= y

Cpm(api) == limits[api][1]
Cph(api) == limits[api][2]

\* mutant of Prune: nothing is removed
PruneNothing(cc, t) == cc

\* call_counts[api_name] = [t for t in ... if now - t < 3600]
Prune(cc, t) == SelectSeq(cc, LAMBDA c : t - c < Hour)

\* minute_calls = [t for t in ... if now - t < 60]
MinuteCalls(cc, t) == SelectSeq(cc, LAMBDA c : t - c < Minute)

\* mutant of HourlyWait: the ceiling test is off by one (> for >=)
HourlyWaitOffByOne(cc, t, cph) ==
    IF Len(cc) > cph
    THEN LET w == Hour - (t - SeqMin(cc)) IN IF w > 0 THEN w ELSE 0
    ELSE 0

\* the hourly branch: time slept (0 = no sleep)
HourlyWait(cc, t, cph) ==
    IF Len(cc) >= cph
    THEN LET w == Hour - (t - SeqMin(cc)) IN IF w > 0 THEN w ELSE 0
    ELSE 0

\* 60 - (now - min(minute_calls)), the remainder of the minute window
MinuteRemainder(mc, t) == Minute - (t - SeqMin(mc))

MinuteFull(mc, cpm) == Len(mc) >= cpm

\* mutant of MinuteWait: sleeps the time elapsed in the window, not its remainder
MinuteWaitElapsed(mc, t, cpm, jitter) ==
    IF MinuteFull(mc, cpm) THEN (t - SeqMin(mc)) + jitter ELSE 0

\* the per-minute branch: time slept (0 = no sleep)
MinuteWait(mc, t, cpm, jitter) ==
    IF MinuteFull(mc, cpm) THEN MinuteRemainder(mc, t) + jitter ELSE 0

\* min_interval = 60.0 / calls_per_minute + random.uniform(0.5, 1.5)
MinInterval(cpm, jitter) == (Minute \div cpm) + jitter

\* mutant of IntervalWait: the interval without the random addition
IntervalWaitNoJitter(last, t, cpm, jitter) ==
    IF last > 0 /\ t - last < Minute \div cpm
    THEN (Minute \div cpm) - (t - last)
    ELSE 0

\* the minimum-interval branch: time slept (0 = no sleep)
IntervalWait(last, t, cpm, jitter) ==
    IF last > 0 /\ t - last < MinInterval(cpm, jitter)
    THEN MinInterval(cpm, jitter) - (t - last)
    ELSE 0

\* time.sleep(w) started at time c ends no earlier than c + w
SleepUntil(c, w) == IF w > 0 THEN c + w ELSE 0

----------------------------------------------------------------------------
(* wait_if_needed: the steps of one caller *)

InCS(t) == pc[t] \in {"minute", "interval", "record"}

Sleeping(t) == InCS(t) /\ clock < wake[t]

\* mutant of LockFree: the lock is never waited for
LockFreeAlways(api) == TRUE

\* mutant of LockFree: one lock for all sources
LockFreeGlobal(api) == \A a \in Sources : locks[a] = NoThread

\* threading.Lock of locks[api_name] is not held
LockFree(api) == locks[api] = NoThread

\* a caller lets some time pass and calls wait_if_needed(api)
Call(t, api, gap) ==
    /\ pc[t] = "idle"
    /\ ncalls < MaxCalls
    /\ pc' = [pc EXCEPT ![t] = "lock"]
    /\ api_name' = [api_name EXCEPT ![t] = api]
    /\ ncalls' = ncalls + 1
    /\ clock' = clock + gap
    /\ UNCHANGED <<locks, last_calls, call_counts, limits, now, wake, due>>
    /\ UNCHANGED <<fetchVars, runVars, nlpVars, pageVars, calcVars>>

\* with self.locks[api_name]: now = time.time(); prune; hourly check
Enter(t) ==
    /\ pc[t] = "lock"
    /\ LockFree(api_name[t])
    /\ LET api == api_name[t]
           cc == Prune(call_counts[api], clock)
       IN /\ locks' = [locks EXCEPT ![api] = t]
          /\ now' = [now EXCEPT ![t] = clock]
          /\ call_counts' = [call_counts EXCEPT ![api] = cc]
          /\ wake' = [wake EXCEPT ![t] =
                         SleepUntil(clock, HourlyWait(cc, clock, Cph(api)))]
    /\ pc' = [pc EXCEPT ![t] = "minute"]
    /\ UNCHANGED <<clock, last_calls, limits, api_name, due, ncalls>>
    /\ UNCHANGED <<fetchVars, runVars, nlpVars, pageVars, calcVars>>

\* the per-minute check, after the hourly sleep (if any) has ended
CheckMinute(t, jitter) ==
    /\ pc[t] = "minute"
    /\ clock >= wake[t]
    /\ LET api == api_name[t]
           mc == MinuteCalls(call_counts[api], now[t])
       IN /\ wake' = [wake EXCEPT ![t] =
                         SleepUntil(clock, MinuteWait(mc, now[t], Cpm(api), jitter))]
          /\ due' = [due EXCEPT ![t] =
                         IF MinuteFull(mc, Cpm(api))
                         THEN now[t] + MinuteRemainder(mc, now[t]) ELSE 0]
    /\ pc' = [pc EXCEPT ![t] = "interval"]
    /\ UNCHANGED <<clock, locks, last_calls, call_counts, limits, api_name, now,
                   ncalls>>
    /\ UNCHANGED <<fetchVars, runVars, nlpVars, pageVars, calcVars>>

\* the minimum-interval check, after the per-minute sleep (if any) has ended
CheckInterval(t, jitter) ==
    /\ pc[t] = "interval"
    /\ clock >= wake[t]
    /\ LET api == api_name[t]
       IN wake' = [wake EXCEPT ![t] =
                      SleepUntil(clock,
                          IntervalWait(last_calls[api], now[t], Cpm(api), jitter))]
    /\ pc' = [pc EXCEPT ![t] = "record"]
    /\ UNCHANGED <<clock, locks, last_calls, call_counts, limits, api_name, now,
                   due, ncalls>>
    /\ UNCHANGED <<fetchVars, runVars, nlpVars, pageVars, calcVars>>

\* mutant of Record: the lock is not released on return
RecordKeepLock(t, gap) ==
    /\ pc[t] = "record"
    /\ clock >= wake[t]
    /\ LET api == api_name[t]
       IN /\ last_calls' = [last_calls EXCEPT ![api] = clock]
          /\ call_counts' = [call_counts EXCEPT ![api] = Append(@, clock + gap)]
    /\ clock' = clock + gap
    /\ pc' = [pc EXCEPT ![t] = "idle"]
    /\ wake' = [wake EXCEPT ![t] = 0]
    /\ due' = [due EXCEPT ![t] = 0]
    /\ now' = [now EXCEPT ![t] = 0]
    /\ api_name' = [api_name EXCEPT ![t] = NoApi]
    /\ UNCHANGED <<locks, limits, ncalls>>
    /\ UNCHANGED <<fetchVars, runVars, nlpVars, pageVars, calcVars>>

\* mutant of Record: the last-call timestamp of every source is overwritten
RecordEverySource(t, gap) ==
    /\ pc[t] = "record"
    /\ clock >= wake[t]
    /\ LET api == api_name[t]
       IN /\ last_calls' = [a \in Sources |-> clock]
          /\ call_counts' = [call_counts EXCEPT ![api] = Append(@, clock + gap)]
          /\ locks' = [locks EXCEPT ![api] = NoThread]
    /\ clock' = clock + gap
    /\ pc' = [pc EXCEPT ![t] = "idle"]
    /\ wake' = [wake EXCEPT ![t] = 0]
    /\ due' = [due EXCEPT ![t] = 0]
    /\ now' = [now EXCEPT ![t] = 0]
    /\ api_name' = [api_name EXCEPT ![t] = NoApi]
    /\ UNCHANGED <<limits, ncalls>>
    /\ UNCHANGED <<fetchVars, runVars, nlpVars, pageVars, calcVars>>

\* last_calls[api_name] = time.time(); call_counts[api_name].append(time.time());
\* leaving the with block releases the lock
Record(t, gap) ==
    /\ pc[t] = "record"
    /\ clock >= wake[t]
    /\ LET api == api_name[t]
       IN /\ last_calls' = [last_calls EXCEPT ![api] = clock]
          /\ call_counts' = [call_counts EXCEPT ![api] = Append(@, clock + gap)]
          /\ locks' = [locks EXCEPT ![api] = NoThread]
    /\ clock' = clock + gap
    /\ pc' = [pc EXCEPT ![t] = "idle"]
    /\ wake' = [wake EXCEPT ![t] = 0]
    /\ due' = [due EXCEPT ![t] = 0]
    /\ now' = [now EXCEPT ![t] = 0]
    /\ api_name' = [api_name EXCEPT ![t] = NoApi]
    /\ UNCHANGED <<limits, ncalls>>
    /\ UNCHANGED <<fetchVars, runVars, nlpVars, pageVars, calcVars>>

\* time passes until a pending time.sleep has ended
Advance(t) ==
    /\ Sleeping(t)
    /\ clock' = wake[t]
    /\ UNCHANGED <<locks, last_calls, call_counts, limits, pc, api_name, now,
                   wake, due, ncalls>>
    /\ UNCHANGED <<fetchVars, runVars, nlpVars, pageVars, calcVars>>

----------------------------------------------------------------------------

\* GoogleSearchMonitor.search has not been called
SearchIdle ==
    /\ page_stage = "idle"
    /\ num_results = 0
    /\ results = 0
    /\ start = 0
    /\ page_attempt = 0
    /\ page_requests = 0
    /\ wait_time = 0
    /\ page_raised = FALSE
    /\ returned = 0

\* no search is running
FetchIdle ==
    /\ SearchIdle
    /\ env = {}
    /\ mode = "none"
    /\ stage = "idle"
    /\ limit = 0
    /\ src_limit = 0
    /\ since = 0
    /\ max_retries = 0
    /\ attempt = 0
    /\ items = <<>>
    /\ sub = 0
    /\ tw = <<>>
    /\ rd = <<>>
    /\ wb = <<>>
    /\ df = <<>>
    /\ requests = [a \in FetchSources |-> 0]
    /\ recorded = [a \in FetchSources |-> 0]
    /\ failed = {}
    /\ only429 = TRUE
    /\ backoff = 0
    /\ start_time = 0
    /\ cancelled = FALSE
    /\ tw_resp = NoTweets
    /\ web_resp = NoResponse
    /\ prev = <<>>
    /\ sink_ok = TRUE
    /\ progress = <<>>
    /\ rd_full = TRUE
    /\ days_arg = 0
    /\ analysed = NotAnalysed
    /\ text = NoText
    /\ scored = NotScored

\* the limiter is fresh (defaultdict defaults), or one earlier twitter call
\* has just returned
Init ==
    /\ FetchIdle
    /\ clock = 1
    /\ locks = [a \in Sources |-> NoThread]
    /\ \E earlier \in BOOLEAN :
          /\ last_calls = [a \in Sources |->
                              IF earlier /\ a = "twitter" THEN clock ELSE 0]
          /\ call_counts = [a \in Sources |->
                               IF earlier /\ a = "twitter" THEN <<clock>> ELSE <<>>]
    /\ limits \in {f \in [Sources -> UNION {LimitSet(a) : a \in Sources}] :
                        \A a \in Sources : f[a] \in LimitSet(a)}
    /\ pc = [t \in Threads |-> "idle"]
    /\ api_name = [t \in Threads |-> NoApi]
    /\ now = [t \in Threads |-> 0]
    /\ wake = [t \in Threads |-> 0]
    /\ due = [t \in Threads |-> 0]
    /\ ncalls = 0

\* the callers' steps, with the idle times before a call drawn from gaps
NextWith(gaps) ==
    \/ \E t \in Threads, api \in Sources, gap \in gaps : Call(t, api, gap)
    \/ \E t \in Threads : Enter(t)
    \/ \E t \in Threads, jitter \in MinuteJitter : CheckMinute(t, jitter)
    \/ \E t \in Threads, jitter \in IntervalJitter : CheckInterval(t, jitter)
    \/ \E t \in Threads, gap \in StampGapSet : Record(t, gap)
    \/ \E t \in Threads : Advance(t)

Next == NextWith(GapSet)

Spec == Init /\ [][Next]_vars

\* every caller keeps running, time advances, and a caller waiting for a lock
\* that is free again and again gets it
Fairness ==
    \A t \in Threads :
        /\ SF_vars(Enter(t))
        /\ WF_vars(\E jitter \in MinuteJitter : CheckMinute(t, jitter))
        /\ WF_vars(\E jitter \in IntervalJitter : CheckInterval(t, jitter))
        /\ WF_vars(\E gap \in StampGapSet : Record(t, gap))
        /\ WF_vars(Advance(t))

\* calls issued in a burst: the callers queue on the locks and find the
\* ceilings reached
BurstNext == NextWith(BurstGapSet)

FairSpec == Init /\ [][BurstNext]_vars /\ Fairness

----------------------------------------------------------------------------
(* The rate limiter's claims *)

\* recorded calls of api in the trailing window of the given length that ends
\* with the i-th recorded call
InWindow(api, i, length) ==
    {j \in 1 .. i : call_counts[api][i] - call_counts[api][j] < length}

\* C1: no 60-second window holds more than calls_per_minute recorded calls of
\* a source, and a call that found the minute window full is granted only
\* after the limiter has slept at least the remainder of that window.
C1_PerMinuteCeiling ==
    /\ \A a \in Sources : \A i \in 1 .. Len(call_counts[a]) :
           Cardinality(InWindow(a, i, Minute)) <= Cpm(a)
    /\ \A t \in Threads :
           (pc[t] = "record" /\ due[t] > 0) => clock >= due[t]

\* calls_per_minute + 1 calls of one source were recorded in a short span
C1_Witness ==
    \E a \in Sources :
        /\ Len(call_counts[a]) > Cpm(a)
        /\ call_counts[a][Cpm(a) + 1] - call_counts[a][1] < 3 * Minute

\* C2: no 3600-second window holds more than calls_per_hour recorded calls of
\* a source.
C2_PerHourCeiling ==
    \A a \in Sources : \A i \in 1 .. Len(call_counts[a]) :
        Cardinality(InWindow(a, i, Hour)) <= Cph(a)

\* a call that found the hourly ceiling reached has been recorded
C2_Witness ==
    \E a \in Sources :
        /\ Len(call_counts[a]) = Cph(a) + 1
        /\ call_counts[a][Cph(a) + 1] - call_counts[a][1] >= Hour

\* C3: every started wait_if_needed call returns (with its call recorded),
\* whatever the history and whoever else is queued on the same source.
C3_AlwaysGrants ==
    \A t \in Threads : \A a \in Sources :
        (pc[t] = "lock" /\ api_name[t] = a)
            ~> (pc[t] = "idle" /\ last_calls[a] > 0 /\ call_counts[a] # <<>>)

\* two calls of the same source, started by different callers, have both
\* returned
C3_Witness ==
    /\ \A t \in Threads : pc[t] = "idle"
    /\ ncalls = 2
    /\ Len(call_counts["twitter"]) = 2
    /\ call_counts["twitter"][2] - call_counts["twitter"][1] < 3 * Minute

\* C4: at most one caller is inside the critical section of a source, and it
\* is the holder of that source's lock.
C4_MutualExclusion ==
    /\ \A t \in Threads : InCS(t) => locks[api_name[t]] = t
    /\ \A t, u \in Threads :
           (t # u /\ InCS(t) /\ InCS(u)) => api_name[t] # api_name[u]

\* a caller sleeps inside the critical section while another one waits for
\* the same source
C4_Witness ==
    \E t, u \in Threads :
        /\ t # u
        /\ Sleeping(t)
        /\ pc[u] = "lock"
        /\ api_name[u] = api_name[t]

\* C5: a caller waiting for source X is blocked only by a caller inside X's
\* critical section, and a caller sleeps only on waits computed from the
\* recorded calls of its own source.
C5_CrossSourceIndependence ==
    /\ \A t \in Threads :
           (/\ pc[t] = "lock"
            /\ \A u \in Threads \ {t} : InCS(u) => api_name[u] # api_name[t])
           => LockFree(api_name[t])
    /\ \A t \in Threads :
           (InCS(t) /\ wake[t] > 0) => last_calls[api_name[t]] > 0

\* a caller is inside X's critical section while another sleeps inside Y's
C5_Witness ==
    \E t, u \in Threads :
        /\ Sleeping(t)
        /\ InCS(u)
        /\ ~Sleeping(u)
        /\ api_name[u] # api_name[t]

----------------------------------------------------------------------------
(* The search handler, fetch_all and the three fetchers.  Times are hours. *)

MaxLimit == 9          \* largest limit a caller passes
MaxRetries == 4        \* largest max_retries a direct caller passes
MaxData == 3           \* largest number of entries in one transport response

\* datetime.now(timezone.utc) of the run
RunNow == 24 * 30

\* mutant of Since: the lookback is not capped
SinceUncapped(d) == RunNow - 24 * d

\* since = datetime.now(timezone.utc) - timedelta(days=min(days, 7))
Since(d) == RunNow - 24 * (IF d < 7 THEN d ELSE 7)

\* the ends of the "Days back" slider of the sidebar
DaysSet == {1, 7}

\* the environments tried: nothing set, everything set, no twitter token,
\* only the google key, everything but the google engine id
AllCredentials ==
    {"TWITTER_BEARER_TOKEN", "REDDIT_CLIENT_ID", "GOOGLE_API_KEY", "GOOGLE_CSE_ID"}

EnvSet ==
    { {}, AllCredentials, AllCredentials \ {"TWITTER_BEARER_TOKEN"},
      {"GOOGLE_API_KEY"}, AllCredentials \ {"GOOGLE_CSE_ID"} }

\* twitter_ok, reddit_ok, google_ok of the sidebar
TwitterOk == "TWITTER_BEARER_TOKEN" \in env
RedditOk == "REDDIT_CLIENT_ID" \in env
GoogleOk == "GOOGLE_API_KEY" \in env

\* mutant of AnyCredentials: all() for any()
AllCredentialsOk == TwitterOk /\ RedditOk /\ GoogleOk

\* any([twitter_ok, reddit_ok, google_ok])
AnyCredentials == TwitterOk \/ RedditOk \/ GoogleOk

\* not GOOGLE_API_KEY or not GOOGLE_CSE_ID, negated
GoogleCredentials == {"GOOGLE_API_KEY", "GOOGLE_CSE_ID"} \subseteq env

\* the credentials each fetcher's client needs
HasCredentials(a) ==
    CASE a = "twitter" -> TwitterOk
      [] a = "reddit" -> RedditOk
      [] a = "google" -> GoogleCredentials

\* mutant of BackoffSchedule: the same wait after every rate limit
BackoffScheduleFlat == <<120, 120, 120>>

\* Progressive backoff: 2 min, 5 min, 10 min
BackoffSchedule == <<120, 300, 600>>

\* time.sleep(30) for other errors
ErrorSleep == 30

\* max_retries=2, the default fetch_all relies on
DefaultMaxRetries == 2

\* limit=5 of the callers that call a fetcher themselves
DirectLimit == 5

\* the least limit the "Max mentions" slider of the sidebar offers
MinLimit == 5

\* the sentiment libraries' scores are counted in ten-thousandths
Unit == 10000

Abs(x) == IF x < 0 THEN -x ELSE x
Min(x, y) == IF x < y THEN x ELSE y
Max(x, y) == IF x < y THEN y ELSE x

\* round(c, 3): to the nearest thousandth, a tie to the even one
Round3(c) ==
    LET q == c \div 10
        r == c % 10
    IN 10 * (IF r > 5 \/ (r = 5 /\ q % 2 = 1) THEN q + 1 ELSE q)

\* the result analyze_sentiment returns for no text and after an exception
NeutralDefault == [sentiment |-> "neutral", confidence |-> 0]

\* mutant of AnalyzeSentiment: the neutral branch adds the larger score to 1
AnalyzeSentimentNeutralAdds(t) ==
    IF t.kind \in {"none", "empty"} THEN NeutralDefault
    ELSE IF t.raises THEN NeutralDefault
    ELSE IF t.compound >= Unit \div 10 /\ t.polarity > 0
         THEN [sentiment |-> "positive",
               confidence |-> Round3(Min(Abs(t.compound), Abs(t.polarity)))]
    ELSE IF t.compound <= -(Unit \div 10) /\ t.polarity < 0
         THEN [sentiment |-> "negative",
               confidence |-> Round3(Min(Abs(t.compound), Abs(t.polarity)))]
    ELSE [sentiment |-> "neutral",
          confidence |-> Round3(Unit + Max(Abs(t.compound), Abs(t.polarity)))]

\* NLPPipeline.analyze_sentiment: t.kind tells None ("none") and "" ("empty")
\* from other texts, t.compound is VADER's compound score and t.polarity
\* TextBlob's polarity of the text, t.raises that one of the two libraries
\* raises on it
AnalyzeSentiment(t) ==
    IF t.kind \in {"none", "empty"} THEN NeutralDefault
    ELSE IF t.raises THEN NeutralDefault
    ELSE IF t.compound >= Unit \div 10 /\ t.polarity > 0
         THEN [sentiment |-> "positive",
               confidence |-> Round3(Min(Abs(t.compound), Abs(t.polarity)))]
    ELSE IF t.compound <= -(Unit \div 10) /\ t.polarity < 0
         THEN [sentiment |-> "negative",
               confidence |-> Round3(Min(Abs(t.compound), Abs(t.polarity)))]
    ELSE [sentiment |-> "neutral",
          confidence |-> Round3(Unit - Max(Abs(t.compound), Abs(t.polarity)))]

\* a text both libraries score as clearly positive
PlainText == [kind |-> "text", compound |-> 5004, polarity |-> 5000, raises |-> FALSE]

\* the same text when a library raises on it
UnscorableText == [kind |-> "text", compound |-> 5004, polarity |-> 5000, raises |-> TRUE]

\* min(limit, 10), the max_results / num of a request
MaxResults(l) == Min(l, 10)

\* what search_recent_tweets may answer: a rate-limit error, another error, no
\* data, or n tweets of which the bad-th (0 = none) is malformed and the
\* unscorable-th (0 = none) has a text a sentiment library raises on; the
\* first early tweets were created before the start_time of the request
TwitterResponses ==
    {[kind |-> k, n |-> 0, bad |-> 0, unscorable |-> 0, early |-> 0] :
         k \in {"rate_limited", "error", "empty"}}
    \cup UNION {{[kind |-> "ok", n |-> n, bad |-> b, unscorable |-> 0, early |-> 0] :
                     b \in 0 .. n} : n \in 1 .. MaxData}
    \cup {[kind |-> "ok", n |-> n, bad |-> 0, unscorable |-> 1, early |-> 0] : n \in 1 .. MaxData}
    \cup {[kind |-> "ok", n |-> 1, bad |-> 0, unscorable |-> 0, early |-> 1]}

\* without a bearer token the client cannot answer with data
TwitterTransport ==
    IF TwitterOk THEN TwitterResponses
    ELSE {[kind |-> "error", n |-> 0, bad |-> 0, unscorable |-> 0, early |-> 0]}

\* a dictionary of items: its source, created_at, the scorer's result and
\* what identifies its content
Item(source, created_at, id, sent_analysis) ==
    [source |-> source, created_at |-> created_at, id |-> id,
     sentiment |-> sent_analysis.sentiment,
     confidence |-> sent_analysis.confidence]

\* hours before the run at which an early tweet was created: 8 days
EarlyAge == 8 * 24

\* the dictionary appended for the k-th tweet of a response; created_at is
\* taken from the tweet as it is
Tweet(k, resp) ==
    Item("Twitter", IF k <= resp.early THEN RunNow - EarlyAge ELSE RunNow - 2 * k, k,
         AnalyzeSentiment(IF k = resp.unscorable THEN UnscorableText ELSE PlainText))

\* the dictionaries appended before the loop over res.data ends or raises
TweetsAppended(resp) ==
    IF resp.kind = "ok"
    THEN [k \in 1 .. (IF resp.bad = 0 THEN resp.n ELSE resp.bad - 1) |->
              Tweet(k, resp)]
    ELSE <<>>

\* mutant of TwitterException: the scorer's exception reaches the loop
TwitterExceptionScorerRaises(resp) ==
    CASE resp.kind = "rate_limited" -> "429"
      [] resp.kind = "error" -> "other"
      [] resp.kind = "ok" /\ (resp.bad > 0 \/ resp.unscorable > 0) -> "other"
      [] OTHER -> "none"

\* the exception the try block ends with: "429", "other" or "none"
TwitterException(resp) ==
    CASE resp.kind = "rate_limited" -> "429"
      [] resp.kind = "error" -> "other"
      [] resp.kind = "ok" /\ resp.bad > 0 -> "other"
      [] OTHER -> "none"

\* mutant of StartTime: since is passed on as it came
StartTimeUnclamped(s) == s

\* since = max(since, earliest), earliest 6 days and 23 hours before now
StartTime(s) == Max(s, RunNow - (6 * 24 + 23))

\* what subreddit.search may answer: an error, or posts that are recent or
\* older than any since, each with a number of usable top comments
PostKinds == {[age |-> 2, comments |-> 0], [age |-> 2, comments |-> 1],
              [age |-> 24 * 3, comments |-> 0]}

RedditResponses ==
    {[kind |-> "error", posts |-> <<>>]}
    \cup {[kind |-> "ok", posts |-> <<>>]}
    \cup {[kind |-> "ok", posts |-> <<p>>] : p \in PostKinds}
    \cup {[kind |-> "ok", posts |-> <<p, p>>] : p \in PostKinds}

\* without a client id the client cannot answer with posts
RedditTransport ==
    IF RedditOk THEN RedditResponses ELSE {[kind |-> "error", posts |-> <<>>]}

\* the dictionaries appended for one post: the post, then list(post.comments)[:2]
PostItems(s, k, post, bound) ==
    IF RunNow - post.age < bound
    THEN <<>>
    ELSE <<Item("Reddit", RunNow - post.age, 10 * s + k, AnalyzeSentiment(PlainText))>>
         \o [c \in 1 .. post.comments |->
                Item("Reddit", RunNow - post.age + 1, 100 * c + 10 * s + k,
                     AnalyzeSentiment(PlainText))]

RECURSIVE SearchItems(_, _, _, _)
\* the dictionaries appended for posts[k..] of one subreddit's search results
SearchItems(s, posts, k, bound) ==
    IF k > Len(posts) THEN <<>>
    ELSE PostItems(s, k, posts[k], bound) \o SearchItems(s, posts, k + 1, bound)

\* items[:limit]
Take(list, n) == SubSeq(list, 1, IF n < Len(list) THEN (IF n < 0 THEN 0 ELSE n) ELSE Len(list))

\* what the custom search request may answer: an error or n results
WebResponses ==
    {[kind |-> "error", n |-> 0]} \cup {[kind |-> "ok", n |-> n] : n \in 0 .. MaxData}

\* the dictionaries appended for res.get('items', []): each is stamped with
\* its own datetime.utcnow(), which is later at every read; reads counts the
\* reads before this call, and a read advances the stamp by one unit
WebItems(n, reads) ==
    [k \in 1 .. n |->
         Item("Web", RunNow + reads + k, k, AnalyzeSentiment(PlainText))]

\* mutant of AllItems: one failed source empties the result
AllItemsOrNothing(t, r, w) == IF failed # {} THEN <<>> ELSE t \o r \o w

\* all_items = tw + rd + wb
AllItems(t, r, w) == t \o r \o w

\* mutant of InsertRow: a row equal to one already placed is dropped
InsertRowDistinct(row, sorted) ==
    IF \E i \in 1 .. Len(sorted) : sorted[i] = row THEN {sorted}
    ELSE {SubSeq(sorted, 1, p) \o <<row>> \o SubSeq(sorted, p + 1, Len(sorted)) :
              p \in {q \in 0 .. Len(sorted) :
                        /\ \A i \in 1 .. q : sorted[i].created_at >= row.created_at
                        /\ \A i \in q + 1 .. Len(sorted) :
                               sorted[i].created_at <= row.created_at}}

\* the places a row can take among rows sorted by created_at, newest first:
\* anywhere among the rows of its own created_at, as the default
\* kind="quicksort" of sort_values is not a stable sort
InsertRow(row, sorted) ==
    {SubSeq(sorted, 1, p) \o <<row>> \o SubSeq(sorted, p + 1, Len(sorted)) :
         p \in {q \in 0 .. Len(sorted) :
                   /\ \A i \in 1 .. q : sorted[i].created_at >= row.created_at
                   /\ \A i \in q + 1 .. Len(sorted) :
                          sorted[i].created_at <= row.created_at}}

RECURSIVE SortValues(_)
\* df.sort_values("created_at", ascending=False): the orders it may produce
SortValues(rows) ==
    IF rows = <<>> THEN {<<>>}
    ELSE UNION {InsertRow(rows[Len(rows)], sorted) :
                    sorted \in SortValues(SubSeq(rows, 1, Len(rows) - 1))}

----------------------------------------------------------------------------
(* The steps *)

\* the Search button: st.error without credentials, else fetch_all's first
\* lines up to the call of fetch_twitter_safe(name, since, limit//3)
SearchButton(l, days) ==
    /\ stage = "idle"
    /\ IF ~AnyCredentials
       THEN /\ stage' = "no_credentials"
            /\ UNCHANGED <<mode, limit, src_limit, since, max_retries>>
       ELSE /\ stage' = "twitter"
            /\ mode' = "fetch_all"
            /\ limit' = l
            /\ src_limit' = l \div 3
            /\ since' = Since(days)
            /\ max_retries' = DefaultMaxRetries
    /\ progress' = IF AnyCredentials THEN <<0, 5>> ELSE progress
    /\ days_arg' = IF AnyCredentials THEN days ELSE days_arg
    /\ UNCHANGED <<env, attempt, items, sub, tw, rd, wb, df, requests, recorded,
                   failed, only429, backoff>>
    /\ UNCHANGED <<start_time, cancelled, tw_resp, web_resp, prev, sink_ok, rd_full>>
    /\ UNCHANGED <<rlVars, nlpVars, pageVars, analysed>>

\* a caller other than fetch_all calls
\* fetch_twitter_safe(query, since, limit=5, max_retries=r), since weeks back
DirectTwitter(r) ==
    /\ stage = "idle"
    /\ stage' = "twitter"
    /\ mode' = "direct"
    /\ limit' = DirectLimit
    /\ src_limit' = DirectLimit
    /\ since' = RunNow - 24 * 30
    /\ max_retries' = r
    /\ UNCHANGED <<env, attempt, items, sub, tw, rd, wb, df, requests, recorded,
                   failed, only429, backoff>>
    /\ UNCHANGED <<rlVars, runVars, nlpVars, pageVars, calcVars>>

\* a caller other than fetch_all calls fetch_web_safe(query, limit=5)
DirectWeb ==
    /\ stage = "idle"
    /\ stage' = "web"
    /\ mode' = "direct_web"
    /\ limit' = DirectLimit
    /\ src_limit' = DirectLimit
    /\ UNCHANGED <<env, since, max_retries, attempt, items, sub, tw, rd, wb, df,
                   requests, recorded, failed, only429, backoff>>
    /\ UNCHANGED <<rlVars, runVars, nlpVars, pageVars, calcVars>>

\* the caller repeats its call of fetch_web_safe with the same arguments
Repeat ==
    /\ stage = "returned"
    /\ mode = "direct_web"
    /\ prev = <<>>
    /\ web_resp # NoResponse
    /\ prev' = <<web_resp, wb>>
    /\ stage' = "web"
    /\ UNCHANGED <<start_time, cancelled, tw_resp, web_resp, sink_ok, progress,
                   rd_full>>
    /\ UNCHANGED <<env, mode, limit, src_limit, since, max_retries, attempt, items,
                   sub, tw, rd, wb, df, requests, recorded, failed, only429,
                   backoff>>
    /\ UNCHANGED <<rlVars, nlpVars, pageVars, calcVars>>

\* the caller asks to cancel while fetch_twitter_safe sleeps between two
\* attempts; neither fetch_twitter_safe nor time.sleep looks at the request
Cancel ==
    /\ stage = "twitter"
    /\ attempt > 0
    /\ ~cancelled
    /\ cancelled' = TRUE
    /\ UNCHANGED <<start_time, tw_resp, web_resp, prev, sink_ok, progress, rd_full>>
    /\ UNCHANGED <<rlVars, fetchVars, nlpVars, pageVars, calcVars>>

\* the progress widgets stop working while fetch_all runs: from now on every
\* call of progress_bar or progress_info raises
SinkBreaks ==
    /\ mode = "fetch_all"
    /\ stage \in {"twitter", "reddit", "web", "process"}
    /\ sink_ok
    /\ sink_ok' = FALSE
    /\ UNCHANGED <<start_time, cancelled, tw_resp, web_resp, prev, progress, rd_full>>
    /\ UNCHANGED <<rlVars, fetchVars, nlpVars, pageVars, calcVars>>

\* a call of progress_info inside the except branch of fetch_twitter_safe
\* raises; nothing catches it and it leaves fetch_all
SinkRaises ==
    /\ stage' = "sink_raised"
    /\ UNCHANGED <<attempt, items, sub, tw, src_limit, failed, backoff, cancelled,
                   progress>>

\* mutant of TwitterReturns: fetch_all goes on to fetch_web_safe
TwitterReturnsThenWeb(ret, failure) ==
    /\ tw' = ret
    /\ failed' = IF failure THEN failed \cup {"twitter"} ELSE failed
    /\ IF mode = "direct"
       THEN /\ stage' = "returned"
            /\ UNCHANGED <<src_limit, sub, progress>>
       ELSE IF ~sink_ok
       THEN /\ stage' = "sink_raised"
            /\ UNCHANGED <<src_limit, sub, progress>>
       ELSE /\ stage' = "web"
            /\ src_limit' = limit - Len(ret)
            /\ progress' = Append(progress, 40)
            /\ UNCHANGED sub
    /\ items' = IF mode = "direct" THEN ret ELSE <<>>
    /\ attempt' = 0
    /\ backoff' = 0
    /\ cancelled' = FALSE

\* fetch_twitter_safe returns ret; fetch_all goes on to fetch_reddit_safe
TwitterReturns(ret, failure) ==
    /\ tw' = ret
    /\ failed' = IF failure THEN failed \cup {"twitter"} ELSE failed
    /\ IF mode = "direct"
       THEN /\ stage' = "returned"
            /\ UNCHANGED <<src_limit, sub, progress>>
       ELSE IF ~sink_ok
       THEN /\ stage' = "sink_raised"
            /\ UNCHANGED <<src_limit, sub, progress>>
       ELSE /\ stage' = "reddit"
            /\ src_limit' = limit \div 3
            /\ sub' = 1
            /\ progress' = Append(progress, 40)
    /\ items' = IF mode = "direct" THEN ret ELSE <<>>
    /\ attempt' = 0
    /\ backoff' = 0
    /\ cancelled' = FALSE

\* one pass of the retry loop of fetch_twitter_safe: wait_if_needed, the
\* request for at most min(limit, 10) tweets from the clamped since on, the
\* loop over res.data, and the except branch
TwitterAttempt(resp) ==
    /\ stage = "twitter"
    /\ resp.n <= MaxResults(src_limit)
    /\ recorded' = [recorded EXCEPT !["twitter"] = @ + 1]
    /\ requests' = [requests EXCEPT !["twitter"] = @ + 1]
    /\ start_time' = StartTime(since)
    /\ tw_resp' = resp
    /\ only429' = (only429 /\ resp.kind = "rate_limited")
    /\ LET collected == items \o TweetsAppended(resp)
           exception == TwitterException(resp)
       IN CASE exception = "none" -> TwitterReturns(collected, FALSE)
            [] exception = "429" /\ attempt >= max_retries ->
                   \* progress_info.error(...) if fetch_all has stored it
                   IF mode = "fetch_all" /\ ~sink_ok THEN SinkRaises
                   ELSE TwitterReturns(collected, TRUE)
            [] exception = "429" /\ attempt < max_retries
                                 /\ attempt + 1 > Len(BackoffSchedule) ->
                   \* IndexError inside the except branch
                   /\ stage' = "raised"
                   /\ UNCHANGED <<attempt, items, sub, tw, src_limit, failed, backoff,
                                  cancelled, progress>>
            [] exception = "429" /\ attempt < max_retries
                                 /\ attempt + 1 <= Len(BackoffSchedule) ->
                   \* progress_info.warning(...) if fetch_all has stored it
                   IF mode = "fetch_all" /\ ~sink_ok THEN SinkRaises
                   ELSE /\ backoff' = BackoffSchedule[attempt + 1]
                        /\ attempt' = attempt + 1
                        /\ items' = collected
                        /\ UNCHANGED <<stage, sub, tw, src_limit, failed, cancelled,
                                       progress>>
            [] exception = "other" /\ attempt >= max_retries ->
                   TwitterReturns(collected, TRUE)
            [] exception = "other" /\ attempt < max_retries ->
                   /\ backoff' = ErrorSleep
                   /\ attempt' = attempt + 1
                   /\ items' = collected
                   /\ UNCHANGED <<stage, sub, tw, src_limit, failed, cancelled,
                                  progress>>
    /\ UNCHANGED <<env, mode, limit, since, max_retries, rd, wb, df>>
    /\ UNCHANGED <<web_resp, prev, sink_ok, rd_full>>
    /\ UNCHANGED <<rlVars, nlpVars, pageVars, calcVars>>

\* fetch_reddit_safe: wait_if_needed once, then one search for at most
\* limit//2 posts per subreddit; after the second one, return items[:limit]
\* and go on to fetch_web_safe
RedditSearch(resp) ==
    /\ stage = "reddit"
    /\ Len(resp.posts) <= src_limit \div 2
    /\ recorded' = IF sub = 1 THEN [recorded EXCEPT !["reddit"] = @ + 1] ELSE recorded
    /\ requests' = [requests EXCEPT !["reddit"] = @ + 1]
    /\ failed' = IF resp.kind = "error" THEN failed \cup {"reddit"} ELSE failed
    /\ rd_full' = (rd_full /\ resp.kind = "ok"
                            /\ Len(resp.posts) = src_limit \div 2
                            /\ \A i \in 1 .. Len(resp.posts) :
                                   RunNow - resp.posts[i].age >= since)
    /\ LET collected == items \o SearchItems(sub, resp.posts, 1, since)
       IN IF sub = 1
          THEN /\ items' = collected
               /\ sub' = 2
               /\ UNCHANGED <<stage, rd, src_limit, progress>>
          ELSE /\ rd' = Take(collected, src_limit)
               /\ items' = <<>>
               /\ sub' = 0
               /\ IF sink_ok
                  THEN /\ stage' = "web"
                       /\ src_limit' = limit - Len(tw) - Len(Take(collected, src_limit))
                       /\ progress' = Append(progress, 70)
                  ELSE /\ stage' = "sink_raised"
                       /\ UNCHANGED <<src_limit, progress>>
    /\ UNCHANGED <<env, mode, limit, since, max_retries, attempt, tw, wb, df,
                   only429, backoff>>
    /\ UNCHANGED <<start_time, cancelled, tw_resp, web_resp, prev, sink_ok>>
    /\ UNCHANGED <<rlVars, nlpVars, pageVars, calcVars>>

\* fetch_web_safe(name, limit - len(tw) - len(rd)): without credentials it
\* returns at once, else one request for at most min(limit, 10) results
WebSearch(resp) ==
    /\ stage = "web"
    /\ resp.n <= Max(0, MaxResults(src_limit))
    /\ IF ~GoogleCredentials
       THEN /\ wb' = <<>>
            /\ UNCHANGED <<requests, recorded, failed, web_resp>>
       ELSE /\ recorded' = [recorded EXCEPT !["google"] = @ + 1]
            /\ requests' = [requests EXCEPT !["google"] = @ + 1]
            /\ web_resp' = resp
            /\ wb' = IF resp.kind = "error" THEN <<>>
                     ELSE WebItems(resp.n, IF prev = <<>> THEN 0 ELSE Len(prev[2]))
            /\ failed' = IF resp.kind = "error" THEN failed \cup {"google"} ELSE failed
    /\ IF mode # "fetch_all"
       THEN stage' = "returned" /\ UNCHANGED progress
       ELSE IF sink_ok
       THEN stage' = "process" /\ progress' = Append(progress, 90)
       ELSE stage' = "sink_raised" /\ UNCHANGED progress
    /\ UNCHANGED <<env, mode, limit, src_limit, since, max_retries, attempt, items,
                   sub, tw, rd, df, only429, backoff>>
    /\ UNCHANGED <<start_time, cancelled, tw_resp, prev, sink_ok, rd_full>>
    /\ UNCHANGED <<rlVars, nlpVars, pageVars, calcVars>>

\* mutant of Process: the completion is not reported
ProcessNoReport ==
    /\ stage = "process"
    /\ IF sink_ok
       THEN /\ df' \in SortValues(AllItems(tw, rd, wb))
            /\ stage' = "done"
            /\ UNCHANGED progress
       ELSE /\ stage' = "sink_raised"
            /\ UNCHANGED <<df, progress>>
    /\ UNCHANGED <<env, mode, limit, src_limit, since, max_retries, attempt, items,
                   sub, tw, rd, wb, requests, recorded, failed, only429, backoff>>
    /\ UNCHANGED <<start_time, cancelled, tw_resp, web_resp, prev, sink_ok, rd_full>>
    /\ UNCHANGED <<rlVars, nlpVars, pageVars, calcVars>>

\* the rest of fetch_all: concatenate, build the DataFrame, sort, return
Process ==
    /\ stage = "process"
    /\ IF sink_ok
       THEN /\ df' \in SortValues(AllItems(tw, rd, wb))
            /\ stage' = "done"
            /\ progress' = Append(progress, 100)
       ELSE /\ stage' = "sink_raised"
            /\ UNCHANGED <<df, progress>>
    /\ UNCHANGED <<env, mode, limit, src_limit, since, max_retries, attempt, items,
                   sub, tw, rd, wb, requests, recorded, failed, only429, backoff>>
    /\ UNCHANGED <<start_time, cancelled, tw_resp, web_resp, prev, sink_ok, rd_full>>
    /\ UNCHANGED <<rlVars, nlpVars, pageVars, calcVars>>

\* the limiter as constructed, before any call
LimiterFresh ==
    /\ clock = 1
    /\ locks = [a \in Sources |-> NoThread]
    /\ last_calls = [a \in Sources |-> 0]
    /\ call_counts = [a \in Sources |-> <<>>]
    /\ limits = [a \in Sources |-> IF a = "twitter" THEN <<1, 2>> ELSE <<2, 2>>]
    /\ pc = [t \in Threads |-> "idle"]
    /\ api_name = [t \in Threads |-> NoApi]
    /\ now = [t \in Threads |-> 0]
    /\ wake = [t \in Threads |-> 0]
    /\ due = [t \in Threads |-> 0]
    /\ ncalls = 0

FetchInit ==
    /\ LimiterFresh
    /\ SearchIdle
    /\ env \in EnvSet
    /\ mode = "none"
    /\ stage = "idle"
    /\ limit = 0
    /\ src_limit = 0
    /\ since = 0
    /\ max_retries = 0
    /\ attempt = 0
    /\ items = <<>>
    /\ sub = 0
    /\ tw = <<>>
    /\ rd = <<>>
    /\ wb = <<>>
    /\ df = <<>>
    /\ requests = [a \in FetchSources |-> 0]
    /\ recorded = [a \in FetchSources |-> 0]
    /\ failed = {}
    /\ only429 = TRUE
    /\ backoff = 0
    /\ start_time = 0
    /\ cancelled = FALSE
    /\ tw_resp = NoTweets
    /\ web_resp = NoResponse
    /\ prev = <<>>
    /\ sink_ok = TRUE
    /\ progress = <<>>
    /\ rd_full = TRUE
    /\ days_arg = 0
    /\ analysed = NotAnalysed
    /\ text = NoText
    /\ scored = NotScored

FetchNext ==
    \/ \E l \in MinLimit .. MaxLimit, days \in DaysSet : SearchButton(l, days)
    \/ \E r \in 0 .. MaxRetries : DirectTwitter(r)
    \/ DirectWeb
    \/ Repeat
    \/ Cancel
    \/ SinkBreaks
    \/ \E resp \in TwitterTransport : TwitterAttempt(resp)
    \/ \E resp \in RedditTransport : RedditSearch(resp)
    \/ \E resp \in WebResponses : WebSearch(resp)
    \/ Process

FetchSpec == FetchInit /\ [][FetchNext]_vars

----------------------------------------------------------------------------
(* The sentiment scorer on its own *)

\* scores VADER and TextBlob may give: the ends of their ranges, 0, and the
\* values around the thresholds 0.1 and 0 of the classification
CompoundSet == {-Unit, -(Unit \div 10), 1 - Unit \div 10, 0, Unit \div 10 - 1,
                Unit \div 10, 5004, 5005, Unit}
PolaritySet == {-Unit, -5, 0, 5, 5000, Unit}

\* the texts tried: None, "", and texts of every pair of scores, on which the
\* libraries raise or not
Texts ==
    {[kind |-> k, compound |-> 0, polarity |-> 0, raises |-> FALSE] :
         k \in {"none", "empty"}}
    \cup {[kind |-> "text", compound |-> c, polarity |-> b, raises |-> r] :
              c \in CompoundSet, b \in PolaritySet, r \in BOOLEAN}

\* a caller passes a text to nlp.analyze_sentiment
Receive(t) ==
    /\ text = NoText
    /\ text' = t
    /\ UNCHANGED scored
    /\ UNCHANGED <<rlVars, fetchVars, runVars, pageVars, calcVars>>

\* analyze_sentiment runs and returns
Analyze ==
    /\ text # NoText
    /\ scored = NotScored
    /\ scored' = AnalyzeSentiment(text)
    /\ UNCHANGED text
    /\ UNCHANGED <<rlVars, fetchVars, runVars, pageVars, calcVars>>

ScoreInit == LimiterFresh /\ FetchIdle

ScoreNext ==
    \/ \E t \in Texts : Receive(t)
    \/ Analyze

ScoreSpec == ScoreInit /\ [][ScoreNext]_vars

----------------------------------------------------------------------------
(* The fetchers' and the coordinator's claims *)

\* fetch_twitter_safe has returned to its caller
TwitterReturned == stage \in {"returned", "reddit", "web", "process", "done"}

\* what fetch_twitter_safe returns when the search has no data
EmptyResult == <<>>

\* number of occurrences of a row in a list
Count(list, row) == Cardinality({i \in 1 .. Len(list) : list[i] = row})

\* the two lists hold the same rows, each as often
SameRows(a, b) ==
    /\ Len(a) = Len(b)
    /\ \A row \in Range(a) \cup Range(b) : Count(a, row) = Count(b, row)

\* C6: a twitter source that answers every attempt rate-limited is asked
\* exactly max_retries + 1 times, and what fetch then returns differs from
\* the result of a successful search without data.
C6_ExhaustedRetriesReported ==
    (TwitterReturned /\ only429 /\ requests["twitter"] > 0)
        => (/\ requests["twitter"] = max_retries + 1
            /\ "twitter" \in failed
            /\ tw # EmptyResult)

\* C7: no failure escapes a fetcher as an exception, and a fetch that ended
\* in a failure returns an outcome that reports it.
C7_NoFailureEscapes ==
    /\ stage # "raised"
    /\ (TwitterReturned /\ "twitter" \in failed) => tw # EmptyResult

\* C8 as stated: when the twitter fetch failed, the result holds exactly the
\* rows of the other two sources.
C8_OnlyOtherSources ==
    (stage = "done" /\ failed = {"twitter"}) => SameRows(df, rd \o wb)

\* C8 as amended: fetch_all completes whatever failed, and its result holds
\* the rows of all three fetchers, each once per occurrence: the rows of the
\* other sources and the rows the failed fetch had collected.
C8_AggregateHoldsAllOutcomes ==
    /\ mode = "fetch_all" => stage # "raised"
    /\ stage = "done" =>
          /\ SameRows(df, tw \o rd \o wb)
          /\ Len(df) = Len(tw) + Len(rd) + Len(wb)

\* a run in which twitter failed and the other two sources returned rows
C8_Witness ==
    /\ stage = "done"
    /\ failed = {"twitter"}
    /\ rd # <<>>
    /\ wb # <<>>
    /\ Len(df) = Len(rd) + Len(wb)

C10_MissingCredentialsSkipped ==
    \A a \in FetchSources :
        ~HasCredentials(a) => (requests[a] = 0 /\ recorded[a] = 0)

----------------------------------------------------------------------------
(* The order, size and content of the result *)

RECURSIVE StableInsert(_, _)
\* the row placed behind the rows at least as new as itself
StableInsert(row, sorted) ==
    IF sorted = <<>> THEN <<row>>
    ELSE IF Head(sorted).created_at >= row.created_at
         THEN <<Head(sorted)>> \o StableInsert(row, Tail(sorted))
         ELSE <<row>> \o sorted

RECURSIVE StableOrder(_)
\* the rows newest first, rows of one created_at in the order they came in
StableOrder(rows) ==
    IF rows = <<>> THEN <<>>
    ELSE StableInsert(rows[Len(rows)], StableOrder(SubSeq(rows, 1, Len(rows) - 1)))

\* C11: the result is ordered by created_at, newest first, and rows of equal
\* created_at keep the order Twitter, Reddit, Web in which they were fetched.
C11_NewestFirstStable ==
    stage = "done" => df = StableOrder(AllItems(tw, rd, wb))

\* C12: whatever the sources answer, the result of fetch_all holds at most
\* limit rows.
C12_WithinTotalLimit ==
    stage = "done" => Len(df) <= limit

\* the steps fetch_all takes from one position to the next
StageOrder ==
    {<<"idle", "twitter">>, <<"twitter", "twitter">>, <<"twitter", "reddit">>,
     <<"reddit", "reddit">>, <<"reddit", "web">>, <<"web", "process">>,
     <<"process", "done">>}
    \cup {<<running, "sink_raised">> :
              running \in {"twitter", "reddit", "web", "process"}}

\* C13: a run of fetch_all calls the Twitter, the Reddit and the web fetcher
\* in this order, each once, and a fetcher has issued no request before the
\* one before it has returned.
C13_FixedSourceOrder ==
    [][(mode' = "fetch_all" /\ sink_ok' = sink_ok) =>
          /\ <<stage, stage'>> \in StageOrder
          /\ stage' = "twitter" =>
                 (requests'["reddit"] = 0 /\ requests'["google"] = 0)
          /\ stage' = "reddit" => requests'["google"] = 0]_vars

\* a run of fetch_all in which every fetcher has issued a request
C13_Witness ==
    /\ mode = "fetch_all"
    /\ stage = "done"
    /\ \A a \in FetchSources : requests[a] > 0

----------------------------------------------------------------------------
(* The since bound of a request *)

\* the window of the recent search endpoint: 7 days
TwitterLookback == 7 * 24

\* C14: the start_time of a Twitter request is never earlier than 7 days
\* before now nor earlier than since, it is since itself when since is
\* inside the clamp, and the fetcher does not return without a request.
C14_SinceClamped ==
    /\ requests["twitter"] > 0 =>
          /\ start_time >= RunNow - TwitterLookback
          /\ start_time >= since
          /\ since >= RunNow - (6 * 24 + 23) => start_time = since
    /\ (TwitterReturned /\ mode \in {"direct", "fetch_all"}) => requests["twitter"] > 0

\* a request made with a since weeks back, clamped to 6 days 23 hours
C14_Witness ==
    /\ requests["twitter"] > 0
    /\ since < RunNow - TwitterLookback
    /\ start_time = RunNow - (6 * 24 + 23)

----------------------------------------------------------------------------
(* Cancellation, repetition and scoring *)

\* C15: once the caller has asked to cancel during a retry sleep, the fetcher
\* issues no further request to its source: the remaining retries are
\* abandoned.
C15_CancelAbandonsRetries ==
    [][cancelled => requests'["twitter"] = requests["twitter"]]_vars

\* C16: a fetch repeated with the same arguments and answered with the same
\* transport response returns the same list as before, created_at included.
C16_RepeatedFetchIdentical ==
    (stage = "returned" /\ mode = "direct_web" /\ prev # <<>> /\ prev[1] = web_resp)
        => wb = prev[2]

\* C17: when a sentiment library raises on the text of one tweet, the attempt
\* that received it is the last one: fetch_twitter_safe returns without a
\* failure, with every tweet of the response appended, the unscorable one as
\* neutral with confidence 0 and the others with their own scores.
C17_ScoringFailureKept ==
    [][(requests'["twitter"] > requests["twitter"] /\ tw_resp'.unscorable > 0) =>
          /\ (TwitterReturned' \/ stage' = "sink_raised")
          /\ "twitter" \notin failed'
          /\ Len(tw') = Len(items) + tw_resp'.n
          /\ \A k \in 1 .. tw_resp'.n :
                 LET item == tw'[Len(items) + k]
                 IN IF k = tw_resp'.unscorable
                    THEN item.sentiment = "neutral" /\ item.confidence = 0
                    ELSE item.sentiment = "positive" /\ item.confidence > 0]_vars

\* a response of two or more tweets whose first could not be scored has been
\* returned in full
C17_Witness ==
    /\ TwitterReturned
    /\ tw_resp.unscorable = 1
    /\ tw_resp.n >= 2
    /\ Len(tw) = tw_resp.n
    /\ tw[1].sentiment = "neutral"
    /\ tw[2].sentiment = "positive"

\* the labels of the scorer
Labels == {"positive", "neutral", "negative"}

\* C18: for every text analyze_sentiment returns one of the three labels and
\* a confidence between 0 and 1, and for None and "" the label neutral with
\* confidence 0.
C18_ScorerTotal ==
    scored # NotScored =>
        /\ scored.sentiment \in Labels
        /\ scored.confidence >= 0
        /\ scored.confidence <= Unit
        /\ text.kind \in {"none", "empty"} => scored = NeutralDefault

\* a text on which no library raised, scored neutral with a confidence
\* strictly between 0 and 1
C18_Witness ==
    /\ scored # NotScored
    /\ text.kind = "text"
    /\ ~text.raises
    /\ scored.sentiment = "neutral"
    /\ scored.confidence > 0
    /\ scored.confidence < Unit

----------------------------------------------------------------------------
(* Requests per fetch *)

\* C19: a fetch whose first request succeeds asks its source exactly once:
\* fetch_twitter_safe has returned after one request that raised nothing,
\* and fetch_reddit_safe, no search of it having failed, has issued one.
C19_OneRequestOnSuccess ==
    /\ (requests["twitter"] = 1 /\ TwitterException(tw_resp) = "none")
           => TwitterReturned
    /\ (mode = "fetch_all" /\ stage \in {"web", "process", "done"}
                           /\ "reddit" \notin failed)
           => requests["reddit"] = 1

\* C20: the result of fetch_all holds every row its three fetchers returned,
\* as often as they returned it, and no other row; it is empty only if all
\* three returned nothing.
C20_ExactConcatenation ==
    stage = "done" =>
        /\ \A row \in Range(df) \cup Range(tw) \cup Range(rd) \cup Range(wb) :
               Count(df, row) = Count(tw, row) + Count(rd, row) + Count(wb, row)
        /\ (tw # <<>> \/ rd # <<>> \/ wb # <<>>) => df # <<>>

\* a result with rows of all three sources, one of them returned twice
C20_Witness ==
    /\ stage = "done"
    /\ tw # <<>>
    /\ rd # <<>>
    /\ wb # <<>>
    /\ \E row \in Range(tw) : Count(tw, row) = 2 /\ Count(df, row) = 2

----------------------------------------------------------------------------
(* Claims C21 - C30 *)

\* C21: a progress widget that raises never ends a run of fetch_all: no
\* exception of progress_bar or progress_info leaves fetch_all.
C21_SinkFailureSwallowed == stage # "sink_raised"

----------------------------------------------------------------------------
(* GoogleSearchMonitor.search, the paginated web search *)

MaxNumResults == 12    \* the largest num_results a caller passes
MaxRequests == 31      \* requests.get calls followed in one search

\* 'num': min(10, ...) and start += 10
PageSize == 10
\* while ... start <= 100, and start = 101 to leave the loop
MaxStart == 100
\* max_retries = 3
SearchMaxRetries == 3
\* int(response.headers.get('Retry-After', 60)), in seconds
RetryAfterDefault == 60
\* random.random() * 0.5 seconds, in milliseconds: from 0 to just below 500
PageJitter == {0, 499}

\* num_results = max(1, min(100, int(num_results)))
ClampResults(n) == Max(1, Min(MaxStart, n))

\* 'num': min(10, num_results - len(results))
Asked == Min(PageSize, num_results - results)

\* what one requests.get can meet: status 429, a RequestException (time-out,
\* connection error, raise_for_status), or a page of n items with or without
\* queries.nextPage; a page may carry one item more than was asked for
PageResponses ==
    {[kind |-> "rate_limited", n |-> 0, next |-> FALSE],
     [kind |-> "error", n |-> 0, next |-> FALSE]}
    \cup {[kind |-> "ok", n |-> n, next |-> more] :
              n \in {0, Asked, Asked + 1}, more \in BOOLEAN}

\* wait_time = (2 ** attempt) + (random.random() * 0.5), in milliseconds
WaitTime(a, jitter) == 1000 * (2 ^ a) + jitter

\* a caller calls search(query, n) with a non-empty query
Search(n) ==
    /\ page_stage = "idle"
    /\ page_stage' = "loop"
    /\ num_results' = ClampResults(n)
    /\ results' = 0
    /\ start' = 1
    /\ page_attempt' = 0
    /\ UNCHANGED <<page_requests, wait_time, page_raised, returned>>
    /\ UNCHANGED <<rlVars, fetchVars, runVars, nlpVars, calcVars>>

\* one pass of the for loop inside the while loop: the request, and then
\* the sleep and the next attempt, or the page's items and the next page, or
\* the return
PageRequest(resp) ==
    /\ page_stage = "loop"
    /\ page_requests < MaxRequests
    /\ page_requests' = page_requests + 1
    /\ CASE resp.kind = "rate_limited" ->
                \* sleep, continue; after the last attempt the for loop ends
                \* without a break and the while loop starts it again
                /\ wait_time' = 1000 * RetryAfterDefault
                /\ page_attempt' = (page_attempt + 1) % SearchMaxRetries
                /\ UNCHANGED <<page_stage, results, start, page_raised, returned>>
         [] resp.kind = "error" /\ page_attempt = SearchMaxRetries - 1 ->
                \* raise, caught by the outer except: return []
                /\ page_raised' = TRUE
                /\ page_stage' = "returned"
                /\ returned' = 0
                /\ UNCHANGED <<results, start, page_attempt, wait_time>>
         [] resp.kind = "error" /\ page_attempt < SearchMaxRetries - 1 ->
                /\ \E jitter \in PageJitter :
                       wait_time' = WaitTime(page_attempt, jitter)
                /\ page_attempt' = page_attempt + 1
                /\ UNCHANGED <<page_stage, results, start, page_raised, returned>>
         [] resp.kind = "ok" ->
                LET collected == Min(num_results, results + resp.n)
                    following == IF resp.next THEN start + PageSize ELSE MaxStart + 1
                IN /\ results' = collected
                   /\ start' = following
                   /\ page_attempt' = 0
                   /\ IF collected < num_results /\ following <= MaxStart
                      THEN UNCHANGED <<page_stage, returned>>
                      ELSE page_stage' = "returned" /\ returned' = collected
                   /\ UNCHANGED <<wait_time, page_raised>>
    /\ UNCHANGED num_results
    /\ UNCHANGED <<rlVars, fetchVars, runVars, nlpVars, calcVars>>

SearchInit == LimiterFresh /\ FetchIdle

SearchNext ==
    \/ \E n \in {0, 1, PageSize, MaxNumResults} : Search(n)
    \/ \E resp \in PageResponses : PageRequest(resp)

SearchSpec == SearchInit /\ [][SearchNext]_vars

\* C22: every fetch ends after a bounded number of requests whatever the
\* transport answers: GoogleSearchMonitor.search makes at most max_retries
\* requests for each of its at most ten pages, also when every request is
\* answered with status 429.
C22_BoundedRequests ==
    page_requests <= SearchMaxRetries * (MaxStart \div PageSize)

\* C23: when fetch_twitter_safe returns without a failure, its list holds
\* each tweet of the last response exactly once and nothing else: no tweet of
\* an attempt that ended in an exception.
C23_NoDoubleCounting ==
    (TwitterReturned /\ "twitter" \notin failed /\ tw_resp # NoTweets) =>
        tw = TweetsAppended(tw_resp)

\* C24: when RequestExceptions use up the retries of a page,
\* GoogleSearchMonitor.search returns the results of the pages before it.
C24_PartialItemsReturned ==
    (page_stage = "returned" /\ page_raised) => returned = results

\* the limit fetch_all or the direct caller passes to fetch_twitter_safe and
\* fetch_reddit_safe
PassedLimit == IF mode = "fetch_all" THEN limit \div 3 ELSE limit

\* C25: no fetcher returns more items than the limit it was given.
C25_WithinSourceLimit ==
    /\ (TwitterReturned /\ mode \in {"direct", "fetch_all"}) =>
           Len(tw) <= PassedLimit
    /\ (stage \in {"web", "process", "done"} /\ mode = "fetch_all") =>
           Len(rd) <= PassedLimit

\* C26: when both subreddit searches succeed and return as many posts as
\* were asked for, all of them since the time bound, fetch_reddit_safe
\* returns exactly limit items.
C26_ExactlyLimitWhenAvailable ==
    (mode = "fetch_all" /\ stage \in {"web", "process", "done"}
        /\ "reddit" \notin failed /\ rd_full) =>
        Len(rd) = PassedLimit

\* C27: after an exception other than a rate limit at attempt a,
\* fetch_twitter_safe sleeps at least 2^a and less than 2^a + 0.5 seconds
\* (attempt already holds a + 1 while it sleeps).
C27_ExponentialBackoff ==
    (stage = "twitter" /\ attempt > 0 /\ TwitterException(tw_resp) = "other") =>
        /\ backoff >= 2 ^ (attempt - 1)
        /\ 2 * backoff < 2 * (2 ^ (attempt - 1)) + 1

\* C28: after a rate-limited response at attempt a < max_retries,
\* fetch_twitter_safe sleeps 120 s for a = 0, 300 s for a = 1 and 600 s for
\* a = 2; for max_retries 2 or 3 the entry always exists (nothing is raised),
\* and after two rate limits in a row the second sleep is the longer one.
C28_ProgressiveSchedule ==
    [][/\ (attempt' = attempt + 1 /\ TwitterException(tw_resp') = "429") =>
              /\ attempt = 0 => backoff' = 120
              /\ attempt = 1 => backoff' = 300
              /\ attempt = 2 => backoff' = 600
              /\ attempt <= 2
              /\ (attempt > 0 /\ TwitterException(tw_resp) = "429") =>
                     backoff' > backoff
       /\ max_retries \in 2 .. 3 => stage' # "raised"]_vars

\* fetch_twitter_safe with max_retries 2 or 3 sleeps for the second time in
\* a row after a rate limit
C28_Witness ==
    /\ stage = "twitter"
    /\ max_retries \in 2 .. 3
    /\ attempt = 2
    /\ only429
    /\ backoff = 300

\* C29: two successive recorded calls of one source, from whichever callers,
\* are at least 60/calls_per_minute + 0.5 seconds apart: when last_calls of a
\* source is overwritten, the new timestamp is at least that much later.
C29_MinimumSeparation ==
    [][\A a \in Sources :
          (last_calls[a] > 0 /\ last_calls'[a] # last_calls[a]) =>
              last_calls'[a] - last_calls[a] >= (Minute \div Cpm(a)) + 1]_vars

\* a source with two calls a minute has recorded a second call within a
\* minute of the first: only the minimum interval has held it back
C29_Witness ==
    \E a \in Sources :
        /\ Cpm(a) = 2
        /\ Len(call_counts[a]) = 2
        /\ last_calls[a] - call_counts[a][1] < Minute

\* C30: the minimum-interval step measures the time elapsed since the last
\* recorded call when it runs, the per-minute sleep of the same call
\* included: after such a sleep it sleeps only what is then still missing
\* of 60/calls_per_minute + uniform(0.5, 1.5) seconds, and not at all if
\* nothing is missing.
C30_RemainderAtCheck ==
    [][\A t \in Threads :
          (pc[t] = "interval" /\ pc'[t] = "record" /\ wake[t] > 0
              /\ last_calls[api_name[t]] > 0) =>
              \E jitter \in IntervalJitter :
                  wake'[t] = SleepUntil(clock,
                                 IntervalWait(last_calls[api_name[t]], clock,
                                              Cpm(api_name[t]), jitter))]_vars

----------------------------------------------------------------------------
(* Claims C31 - C39 *)

\* C31 as stated: in every state, no timestamp in a source's call_counts is
\* older than one hour at the current time.
C31_NeverOlderThanHour ==
    \A a \in Sources : \A i \in 1 .. Len(call_counts[a]) :
        clock - call_counts[a][i] <= Hour

\* C31: while a call of wait_if_needed checks a source, the source's
\* call_counts holds no timestamp one hour or more older than the time the
\* call read on entry.
C31_PrunedAtCheck ==
    \A t \in Threads :
        InCS(t) =>
            \A i \in 1 .. Len(call_counts[api_name[t]]) :
                now[t] - call_counts[api_name[t]][i] < Hour

\* a call has entered and found the only recorded call of its source too old
C31_Witness ==
    \E t \in Threads :
        /\ pc[t] = "minute"
        /\ last_calls[api_name[t]] > 0
        /\ call_counts[api_name[t]] = <<>>

\* C32: a call of wait_if_needed for one source changes the call_counts,
\* the last_calls entry and the lock of no other source: whenever one of the
\* three changes for a source, the caller that moved was called for it.
C32_OtherSourcesUntouched ==
    [][\A a \in Sources :
          (\/ call_counts'[a] # call_counts[a]
           \/ last_calls'[a] # last_calls[a]
           \/ locks'[a] # locks[a])
          => \E t \in Threads : pc'[t] # pc[t] /\ api_name[t] = a]_vars

\* a caller is about to record its call for one source while another caller
\* holds the lock of a different source that has a recorded call
C32_Witness ==
    \E t, u \in Threads :
        /\ pc[t] = "record"
        /\ InCS(u)
        /\ api_name[u] # api_name[t]
        /\ locks[api_name[u]] = u
        /\ last_calls[api_name[u]] > 0

\* C33: when wait_if_needed has returned, the source's last_calls entry
\* equals the newest entry of its call_counts.
C33_LastCallIsNewest ==
    \A a \in Sources :
        (locks[a] = NoThread /\ Len(call_counts[a]) > 0) =>
            last_calls[a] = call_counts[a][Len(call_counts[a])]

----------------------------------------------------------------------------
(* fetch_all's first statement, for any days argument *)

MaxDays == 120         \* the largest days a caller passes to fetch_all

\* a caller calls fetch_all(name, d, limit); its first statement computes
\* since
FetchAllCalled(d) ==
    /\ stage = "idle"
    /\ stage' = "since"
    /\ mode' = "fetch_all"
    /\ days_arg' = d
    /\ since' = Since(d)
    /\ UNCHANGED <<env, limit, src_limit, max_retries, attempt, items, sub, tw, rd,
                   wb, df, requests, recorded, failed, only429, backoff>>
    /\ UNCHANGED <<rlVars, runVars, nlpVars, pageVars, analysed>>

SinceInit == LimiterFresh /\ FetchIdle

SinceNext == \E d \in 0 .. MaxDays : FetchAllCalled(d)

SinceSpec == SinceInit /\ [][SinceNext]_vars

\* C34: for every days >= 0, fetch_all's since is the run time minus days
\* when days is at most 7 and the run time minus 7 days otherwise, so it is
\* never earlier than 7 days before the run and never later than the run.
C34_SinceFormula ==
    stage = "since" =>
        /\ since <= RunNow
        /\ since >= RunNow - 7 * 24
        /\ days_arg <= 7 => since = RunNow - 24 * days_arg
        /\ days_arg >= 7 => since = RunNow - 7 * 24

\* fetch_all was called with more than 7 days
C34_Witness == stage = "since" /\ days_arg > 7 /\ since = RunNow - 7 * 24

\* C35: a run of fetch_all reports its progress at the start, after each of
\* the three fetchers and at the end, in this order: the percentages lie in
\* 0..100 and never decrease, and a finished run has reported 100 last,
\* whichever fetchers failed or returned nothing.
C35_ProgressMilestones ==
    (mode = "fetch_all" /\ stage # "sink_raised") =>
        /\ \A i \in 1 .. Len(progress) : progress[i] \in 0 .. 100
        /\ \A i, j \in 1 .. Len(progress) : i < j => progress[i] <= progress[j]
        /\ stage = "twitter" => Len(progress) = 2
        /\ stage = "reddit" => Len(progress) = 3
        /\ stage = "web" => Len(progress) = 4
        /\ stage = "process" => Len(progress) = 5
        /\ stage = "done" => (Len(progress) = 6 /\ progress[6] = 100)

\* a run in which two fetchers failed and none returned an item has ended
C35_Witness ==
    /\ mode = "fetch_all"
    /\ stage = "done"
    /\ Cardinality(failed) >= 2
    /\ df = <<>>
    /\ progress[Len(progress)] = 100

\* C36: every request to a source follows its own wait_if_needed call for
\* that source: the calls a fetcher has made to wait_if_needed for a source
\* are as many as the requests it has issued to it.
C36_AcquirePerRequest ==
    \A a \in FetchSources : recorded[a] = requests[a]

\* C37: every item fetch_twitter_safe and fetch_reddit_safe return was
\* created at or after the since of that fetch, for Twitter the clamped one.
C37_ItemsSinceBound ==
    /\ TwitterReturned =>
           \A i \in 1 .. Len(tw) : tw[i].created_at >= StartTime(since)
    /\ \A i \in 1 .. Len(rd) : rd[i].created_at >= since

\* C38: fetch_all calls each of the three fetchers with a limit of at least
\* 1, whatever the fetchers before it have returned.
C38_NonzeroSourceLimits ==
    (mode = "fetch_all" /\ stage \in {"twitter", "reddit", "web"}) =>
        src_limit >= 1

----------------------------------------------------------------------------
(* GoogleSearchMonitor._analyze_result: the risk score *)

\* sentiment['compound'] in hundredths, from -1.00 to 1.00
CompoundRange == -100 .. 100

\* int(x) for a number x = num / 100: truncation towards zero
IntOfHundredths(num) == IF num >= 0 THEN num \div 100 ELSE -((-num) \div 100)

\* risk_score: 70 * (1 + compound) if compound < -0.2, plus 30 if PII was
\* detected, then min(100, max(0, int(risk_score)))
RiskScore(compound, pii_detected) ==
    LET sentiment_part == IF compound < -20 THEN 70 * (100 + compound) ELSE 0
        pii_part == IF pii_detected THEN 30 * 100 ELSE 0
    IN Min(100, Max(0, IntOfHundredths(sentiment_part + pii_part)))

\* _analyze_result(result) for a text of the given compound score
AnalyzeResult(compound, pii_detected) ==
    /\ analysed = NotAnalysed
    /\ analysed' = [compound |-> compound, pii_detected |-> pii_detected,
                    risk_score |-> RiskScore(compound, pii_detected)]
    /\ UNCHANGED days_arg
    /\ UNCHANGED <<rlVars, fetchVars, runVars, nlpVars, pageVars>>

RiskInit == LimiterFresh /\ FetchIdle

RiskNext ==
    \E compound \in CompoundRange, pii_detected \in BOOLEAN :
        AnalyzeResult(compound, pii_detected)

RiskSpec == RiskInit /\ [][RiskNext]_vars

\* C39: the risk score is an integer from 0 to 100, and with the same PII
\* flag a result whose compound is less negative never has a higher score.
C39_RiskMonotone ==
    analysed # NotAnalysed =>
        /\ analysed.risk_score \in 0 .. 100
        /\ \A compound \in CompoundRange :
               compound >= analysed.compound =>
                   RiskScore(compound, analysed.pii_detected)
                       <= analysed.risk_score

====
